---- MODULE Spec2Model ----
(***************************************************************************)
(* Model of the document chunking core of py-doc                           *)
(* (src/common/doc_chunk.py, mirrored by src/common/document_chunk.py and  *)
(* src/common/document_chunk_test.py).                                     *)
(*                                                                         *)
(* A Python str is a sequence of Unicode code points (integers); a Python  *)
(* list is a sequence; a dataclass instance is a record.  Python offsets   *)
(* are 0-based, so content[k] in the source is content[k + 1] here.        *)
(***************************************************************************)
EXTENDS Integers, Sequences, FiniteSets, TLC

VARIABLES
    doc,          \* the Document: doc_id, chunk_size, chunk_overlap, content, chunks, created_at, updated_at
    proc,         \* the DocumentProcessor: chunk_size, chunk_overlap
    pc,           \* where process_document is: "idle" (not running), "loop" (in _create_chunks)
    start,        \* _create_chunks: cursor
    chunk_index,  \* _create_chunks: index of the next chunk
    chunks,       \* _create_chunks: the local list of chunks built so far
    op,           \* the last call that returned or raised, with its outcome
    now,          \* the number of datetime.now() readings taken so far
    calls,        \* how many times process_document was called
    adds,         \* how many times a caller called add_chunk directly
    vin,          \* verify_chunk_integrity: its arguments (chunks, original_content)
    report,       \* verify_chunk_integrity: the returned dict
    pos,          \* the outcome of the last DocChunkPosition(...) a caller constructed
    fin,          \* _find_split_boundary called directly: its arguments (content, position)
    fout,         \* _find_split_boundary called directly: the returned position
    metrics,      \* analyze_overlap_efficiency: its argument and the returned dict
    threads,      \* the threads inside add_chunk: where each is, its chunk, its clock reading
    sums          \* calculate_md5_file: the files it was called on and what it returned

vars == <<doc, proc, pc, start, chunk_index, chunks, op, now, calls, adds, vin, report, pos, fin, fout, metrics, threads, sums>>

-----------------------------------------------------------------------------
(* Bounds of the model *)

MaxLen == 5          \* longest document content
MaxChunkSize == 2    \* largest processor chunk_size
MaxOverlap == 2      \* largest processor chunk_overlap
MaxCalls == 2        \* process_document calls per Document
MaxAdds == 1         \* direct add_chunk calls accepted per Document
MaxVChunks == 3      \* longest chunk list handed to the verifier
MaxPos == 1          \* largest argument of a caller-built DocChunkPosition

(* Program constants *)

SearchWindow == 100          \* _find_split_boundary: min(100, ...)
DefaultChunkSize == 2000     \* Document.chunk_size default
DefaultChunkOverlap == 200   \* Document.chunk_overlap default

\* boundary_chars = ['。', '；', '\n', '，', ':', '：'] as code points
boundary_chars == {12290, 65307, 10, 65292, 58, 65306}

\* the characters str.split() treats as whitespace
Whitespace == {9, 10, 11, 12, 13, 28, 29, 30, 31, 32, 133, 160, 5760, 8232, 8233, 8239, 8287, 12288}
                  \cup (8192..8202)

Newline == 10

\* the characters document contents are drawn from: 'a' and '\n' (a boundary
\* character, a line break and whitespace at once)
Alphabet == {97, 10}

\* Optional[str] = None
NoneStr == <<-1>>

-----------------------------------------------------------------------------
(* Python built-ins *)

Min(a, b) == IF a < b THEN a ELSE b

Max(a, b) == IF a > b THEN a ELSE b

SetMin(S) == CHOOSE x \in S : \A y \in S : x <= y

\* one bound of a slice s[lo:hi] brought into 0..len(s)
SliceIndex(i, n) == IF i < 0 THEN Max(i + n, 0) ELSE Min(i, n)

\* s[lo:hi]
PySlice(s, lo, hi) ==
    LET l == SliceIndex(lo, Len(s))
        h == SliceIndex(hi, Len(s))
    IN  IF l >= h THEN <<>> ELSE SubSeq(s, l + 1, h)

\* s.count(c)
Count(s, c) == Cardinality({i \in 1..Len(s) : s[i] = c})

\* "".join(parts)
RECURSIVE Join(_)
Join(parts) == IF parts = <<>> THEN <<>> ELSE Head(parts) \o Join(Tail(parts))

\* sum(...) over a sequence of integers
RECURSIVE Sum(_)
Sum(xs) == IF xs = <<>> THEN 0 ELSE Head(xs) + Sum(Tail(xs))

\* the decimal digits of n >= 0, as code points
RECURSIVE Digits(_)
Digits(n) == IF n < 10 THEN <<48 + n>> ELSE Digits(n \div 10) \o <<48 + (n % 10)>>

\* f"{n:04d}"
RECURSIVE ZeroPad(_, _)
ZeroPad(d, width) == IF Len(d) >= width THEN d ELSE ZeroPad(<<48>> \o d, width)

Format04d(n) == ZeroPad(Digits(n), 4)

\* hashlib.md5(x).hexdigest(), taken as an injective function of what was fed
Md5(x) == <<"md5", x>>

\* all sequences over S of length at most n
RECURSIVE SeqsUpTo(_, _)
SeqsUpTo(S, n) ==
    IF n = 0 THEN {<<>>}
    ELSE LET shorter == SeqsUpTo(S, n - 1)
         IN  shorter \cup {Append(s, x) : s \in shorter, x \in S}

-----------------------------------------------------------------------------
(* Position model: DocChunkPosition *)

\* __post_init__ raises ValueError("起始位置不能大于结束位置")
DocChunkPosition_raises(char_start, char_end) == char_start > char_end

\* the object the dataclass constructor leaves behind when __post_init__ returns
DocChunkPosition(char_start, char_end, line_start, line_end, overlap_start, overlap_end, content_start, content_end) ==
    [char_start    |-> char_start,
     char_end      |-> char_end,
     line_start    |-> line_start,
     line_end      |-> line_end,
     overlap_start |-> overlap_start,
     overlap_end   |-> overlap_end,
     content_start |-> IF content_start = 0 THEN char_start + overlap_start ELSE content_start,
     content_end   |-> IF content_end = 0 THEN char_end - overlap_end ELSE content_end]

total_length(position) == position.char_end - position.char_start

content_length(position) == position.content_end - position.content_start

total_overlap(position) == position.overlap_start + position.overlap_end

-----------------------------------------------------------------------------
(* Chunk model: DocChunk *)

\* DocChunk(...) with actual_chunk_size, content_hash and created_at left to
\* __post_init__; t is the datetime.now() reading it takes
DocChunk(chunk_id, index, content, position, doc_id, target_chunk_size, tokens_count, t) ==
    [chunk_id          |-> chunk_id,
     chunk_index       |-> index,
     content           |-> content,
     position          |-> position,
     doc_id            |-> doc_id,
     target_chunk_size |-> target_chunk_size,
     actual_chunk_size |-> Len(content),
     content_hash      |-> Md5(content),
     tokens_count      |-> tokens_count,
     created_at        |-> t]

\* content_without_overlap that forgets to cut the trailing overlap
content_without_overlap_keeps_tail(chunk) ==
    PySlice(chunk.content, chunk.position.overlap_start, Len(chunk.content))

content_without_overlap(chunk) ==
    PySlice(chunk.content, chunk.position.overlap_start,
            Len(chunk.content) - chunk.position.overlap_end)

\* overlap_with_previous that measures with the other overlap
overlap_with_previous_by_overlap_end(chunk) ==
    IF chunk.position.overlap_end = 0 THEN <<>>
    ELSE PySlice(chunk.content, 0, chunk.position.overlap_end)

overlap_with_previous(chunk) ==
    IF chunk.position.overlap_start = 0 THEN <<>>
    ELSE PySlice(chunk.content, 0, chunk.position.overlap_start)

overlap_with_next(chunk) ==
    IF chunk.position.overlap_end = 0 THEN <<>>
    ELSE PySlice(chunk.content, -chunk.position.overlap_end, Len(chunk.content))

\* get_absolute_position measured from the core instead of the stored span
get_absolute_position_from_core(chunk, relative_pos) ==
    chunk.position.content_start + relative_pos

get_absolute_position(chunk, relative_pos) == chunk.position.char_start + relative_pos

get_relative_position(chunk, absolute_pos) == absolute_pos - chunk.position.char_start

-----------------------------------------------------------------------------
(* Document model: Document *)

\* Document(...) with chunks, created_at and updated_at left to __post_init__
Document(doc_id, chunk_size, chunk_overlap, content, t) ==
    [doc_id        |-> doc_id,
     chunk_size    |-> chunk_size,
     chunk_overlap |-> chunk_overlap,
     content       |-> content,
     chunks        |-> <<>>,
     created_at    |-> t,
     updated_at    |-> t]

\* add_chunk that appends before it checks the owner
add_chunk_appends_first(d, chunk, t) ==
    [d EXCEPT !.chunks = Append(@, chunk),
              !.updated_at = IF chunk.doc_id # d.doc_id THEN @ ELSE t]

\* an append that overwrites the list it was handed
list_append_overwrites(xs, x) == <<x>>

\* self.chunks.append(chunk): one step of the interpreter
list_append(xs, x) == Append(xs, x)

\* add_chunk without its owner check
add_chunk_raises_never(d, chunk) == FALSE

\* add_chunk that overwrites the chunk list with the new chunk
add_chunk_replaces(d, chunk, t) ==
    IF chunk.doc_id # d.doc_id THEN d
    ELSE [d EXCEPT !.chunks = <<chunk>>, !.updated_at = t]

\* add_chunk raises ValueError("分块不属于当前文档")
add_chunk_raises(d, chunk) == chunk.doc_id # d.doc_id

\* the Document after add_chunk(chunk); t is the datetime.now() reading it takes
add_chunk(d, chunk, t) ==
    IF add_chunk_raises(d, chunk) THEN d
    ELSE [d EXCEPT !.chunks = Append(@, chunk), !.updated_at = t]

\* get_chunk_by_position: the index (from 1) of the chunk returned, 0 for None
get_chunk_by_position(d, char_position) ==
    LET hits == {i \in 1..Len(d.chunks) :
                    /\ d.chunks[i].position.char_start <= char_position
                    /\ char_position <= d.chunks[i].position.char_end}
    IN  IF hits = {} THEN 0 ELSE SetMin(hits)

-----------------------------------------------------------------------------
(* Chunker: DocumentProcessor *)

DocumentProcessor(chunk_size, chunk_overlap) ==
    [chunk_size |-> chunk_size, chunk_overlap |-> chunk_overlap]

\* _find_split_boundary whose backward search reaches one character further
find_split_boundary_reaches_further(content, position) ==
    LET search_range == Min(SearchWindow, Len(content) - position)
        forward  == {i \in 0..(search_range - 1) : content[position + i + 1] \in boundary_chars}
        backward == {i \in 0..Min(SearchWindow, position) :
                        content[position - i + 1] \in boundary_chars}
    IN  IF forward # {} THEN position + SetMin(forward) + 1
        ELSE IF backward # {} THEN position - SetMin(backward) + 1
        ELSE position

\* _find_split_boundary whose forward search runs to the end of the content
find_split_boundary_unwindowed(content, position) ==
    LET search_range == Len(content) - position
        forward  == {i \in 0..(search_range - 1) : content[position + i + 1] \in boundary_chars}
        backward == {i \in 0..(Min(SearchWindow, position) - 1) :
                        content[position - i + 1] \in boundary_chars}
    IN  IF forward # {} THEN position + SetMin(forward) + 1
        ELSE IF backward # {} THEN position - SetMin(backward) + 1
        ELSE position

\* _find_split_boundary without its backward search
find_split_boundary_forward_only(content, position) ==
    LET search_range == Min(SearchWindow, Len(content) - position)
        forward == {i \in 0..(search_range - 1) : content[position + i + 1] \in boundary_chars}
    IN  IF forward # {} THEN position + SetMin(forward) + 1 ELSE position

\* _find_split_boundary that searches backward before it searches forward
find_split_boundary_backward_first(content, position) ==
    LET search_range == Min(SearchWindow, Len(content) - position)
        forward  == {i \in 0..(search_range - 1) : content[position + i + 1] \in boundary_chars}
        backward == {i \in 0..(Min(SearchWindow, position) - 1) :
                        content[position - i + 1] \in boundary_chars}
    IN  IF backward # {} THEN position - SetMin(backward) + 1
        ELSE IF forward # {} THEN position + SetMin(forward) + 1
        ELSE position

\* _find_split_boundary(content, position)
find_split_boundary(content, position) ==
    LET search_range == Min(SearchWindow, Len(content) - position)
        forward  == {i \in 0..(search_range - 1) : content[position + i + 1] \in boundary_chars}
        backward == {i \in 0..(Min(SearchWindow, position) - 1) :
                        content[position - i + 1] \in boundary_chars}
    IN  IF forward # {} THEN position + SetMin(forward) + 1
        ELSE IF backward # {} THEN position - SetMin(backward) + 1
        ELSE position

\* _get_line_number(content, position)
get_line_number(content, position) == Count(PySlice(content, 0, position), Newline) + 1

\* _count_tokens(text): len(text.split())
count_tokens(text) ==
    Cardinality({i \in 1..Len(text) :
                    /\ text[i] \notin Whitespace
                    /\ (i = 1 \/ text[i - 1] \in Whitespace)})

\* a core end that ignores chunk_size and takes all that is left
core_end_whole_rest(content, s, chunk_size) == Len(content)

\* _create_chunks, lines 217-221: the authoritative core end of the iteration at cursor s
core_end(content, s, chunk_size) ==
    LET end == Min(s + chunk_size, Len(content))
    IN  IF end < Len(content) THEN find_split_boundary(content, end) ELSE end

\* _create_chunks, lines 224-239: overlap_start of the iteration
loop_overlap_start(index, s, chunk_overlap) ==
    IF index > 0 THEN Min(chunk_overlap, s) ELSE 0

\* overlap_end that is not clamped to the characters left
loop_overlap_end_unclamped(content, end, chunk_overlap) ==
    IF end < Len(content) THEN chunk_overlap ELSE 0

\* _create_chunks, lines 224-239: overlap_end of the iteration
loop_overlap_end(content, end, chunk_overlap) ==
    IF end < Len(content) THEN Min(chunk_overlap, Len(content) - end) ELSE 0

\* actual_start that leaves the overlap out of the stored span
loop_actual_start_at_cursor(index, s, chunk_overlap) == s

\* _create_chunks, lines 227-239: actual_start of the iteration
loop_actual_start(index, s, chunk_overlap) == s - loop_overlap_start(index, s, chunk_overlap)

\* _create_chunks, lines 234-239: actual_end of the iteration
loop_actual_end(content, end, chunk_overlap) ==
    IF end < Len(content)
    THEN Min(end + loop_overlap_end(content, end, chunk_overlap), Len(content))
    ELSE end

\* f"{doc.doc_id}_chunk_{chunk_index:04d}"
format_chunk_id(doc_id, index) == <<doc_id, "_chunk_">> \o Format04d(index)

\* _create_chunks, lines 245-254: does the DocChunkPosition(...) of the iteration raise
loop_position_raises(p, d, s, index) ==
    LET end == core_end(d.content, s, p.chunk_size)
    IN  DocChunkPosition_raises(loop_actual_start(index, s, p.chunk_overlap),
                                loop_actual_end(d.content, end, p.chunk_overlap))

\* the position built with content_start=actual_start instead of start
loop_position_from_actual_start(p, d, s, index) ==
    LET content      == d.content
        end          == core_end(content, s, p.chunk_size)
        actual_start == loop_actual_start(index, s, p.chunk_overlap)
        actual_end   == loop_actual_end(content, end, p.chunk_overlap)
    IN  DocChunkPosition(actual_start, actual_end,
                         get_line_number(content, actual_start),
                         get_line_number(content, actual_end),
                         loop_overlap_start(index, s, p.chunk_overlap),
                         loop_overlap_end(content, end, p.chunk_overlap),
                         actual_start, end)

\* _create_chunks, lines 245-254: the DocChunkPosition of the iteration at
\* cursor s with chunk_index index
loop_position(p, d, s, index) ==
    LET content      == d.content
        end          == core_end(content, s, p.chunk_size)
        actual_start == loop_actual_start(index, s, p.chunk_overlap)
        actual_end   == loop_actual_end(content, end, p.chunk_overlap)
    IN  DocChunkPosition(actual_start, actual_end,
                         get_line_number(content, actual_start),
                         get_line_number(content, actual_end),
                         loop_overlap_start(index, s, p.chunk_overlap),
                         loop_overlap_end(content, end, p.chunk_overlap),
                         s, end)

\* _create_chunks, lines 241-265: the chunk one iteration builds; t is the
\* datetime.now() reading DocChunk.__post_init__ takes
loop_chunk(p, d, s, index, t) ==
    LET content       == d.content
        end           == core_end(content, s, p.chunk_size)
        actual_start  == loop_actual_start(index, s, p.chunk_overlap)
        actual_end    == loop_actual_end(content, end, p.chunk_overlap)
        chunk_content == PySlice(content, actual_start, actual_end)
    IN  DocChunk(format_chunk_id(d.doc_id, index), index, chunk_content,
                 loop_position(p, d, s, index),
                 d.doc_id, p.chunk_size, count_tokens(chunk_content), t)

\* process_document, lines 202-203: for chunk in chunks: doc.add_chunk(chunk);
\* the k-th add_chunk takes the datetime.now() reading t + k
RECURSIVE add_chunks(_, _, _)
add_chunks(d, cs, t) ==
    IF cs = <<>> THEN d
    ELSE add_chunks(add_chunk(d, Head(cs), t + 1), Tail(cs), t + 1)

\* process_document, lines 202-203: does some doc.add_chunk(chunk) raise
add_chunks_raises(d, cs) == \E i \in 1..Len(cs) : add_chunk_raises(d, cs[i])

\* process_document, lines 202-203: the chunks the loop has added when an
\* add_chunk raises, those before the first one that is rejected
added_before_raise(d, cs) ==
    SubSeq(cs, 1, SetMin({i \in 1..Len(cs) : add_chunk_raises(d, cs[i])}) - 1)

\* an emptiness test that only catches None
content_is_none(content) == content = NoneStr

\* process_document, line 197: not doc.content
content_is_empty(content) == content = NoneStr \/ Len(content) = 0

-----------------------------------------------------------------------------
(* Verifier: ChunkVerifier *)

\* reconstruct_content(chunks)
reconstruct_content(cs) ==
    IF cs = <<>> THEN <<>>
    ELSE Join([i \in 1..Len(cs) |-> content_without_overlap(cs[i])])

\* an entry of results["issues"]; i is the index in the message, -1 when it has none
Issue(kind, i) == [kind |-> kind, i |-> i]

\* results = {"coverage_complete": True, ..., "issues": []}: lines 320-325
fresh_results ==
    [coverage_complete |-> TRUE, overlaps_correct |-> TRUE,
     content_matches |-> TRUE, issues |-> <<>>]

\* a failed check that replaces the issue list instead of appending to it
fail_forgets(results, key, issue) ==
    [results EXCEPT ![key] = FALSE, !.issues = <<issue>>]

\* results[key] = False; results["issues"].append(issue)
fail(results, key, issue) ==
    [results EXCEPT ![key] = FALSE, !.issues = Append(@, issue)]

\* verify_chunk_integrity, lines 327-338: the coverage bounds
verify_bounds(results, cs, original_content) ==
    IF cs = <<>> THEN results
    ELSE LET first_chunk == cs[1]
             last_chunk  == cs[Len(cs)]
             r1 == IF first_chunk.position.content_start # 0
                   THEN fail(results, "coverage_complete", Issue("first chunk does not start at 0", -1))
                   ELSE results
         IN  IF last_chunk.position.content_end # Len(original_content)
             THEN fail(r1, "coverage_complete", Issue("last chunk does not reach the end", -1))
             ELSE r1

\* the pair check without the overlap_end > 0 guard
verify_pair_unguarded(results, cs, i) ==
    LET current    == cs[i + 1]
        next_chunk == cs[i + 2]
        r1 == IF current.position.content_end # next_chunk.position.content_start
              THEN fail(results, "coverage_complete", Issue("gap or duplicate", i))
              ELSE results
    IN  IF overlap_with_next(current) # overlap_with_previous(next_chunk)
        THEN fail(r1, "overlaps_correct", Issue("overlap mismatch", i))
        ELSE r1

\* verify_chunk_integrity, lines 342-357: the body of the loop for one i (from 0)
verify_pair(results, cs, i) ==
    LET current    == cs[i + 1]
        next_chunk == cs[i + 2]
        r1 == IF current.position.content_end # next_chunk.position.content_start
              THEN fail(results, "coverage_complete", Issue("gap or duplicate", i))
              ELSE results
    IN  IF /\ current.position.overlap_end > 0
           /\ overlap_with_next(current) # overlap_with_previous(next_chunk)
        THEN fail(r1, "overlaps_correct", Issue("overlap mismatch", i))
        ELSE r1

\* verify_chunk_integrity, line 341: for i in range(len(chunks) - 1), from i on
RECURSIVE verify_pairs(_, _, _)
verify_pairs(results, cs, i) ==
    IF i >= Len(cs) - 1 THEN results
    ELSE verify_pairs(verify_pair(results, cs, i), cs, i + 1)

\* verify_chunk_integrity, lines 359-363: the reconstruction
verify_content(results, cs, original_content) ==
    IF reconstruct_content(cs) # original_content
    THEN fail(results, "content_matches", Issue("reconstruction differs", -1))
    ELSE results

\* verify_chunk_integrity(chunks, original_content)
verify_chunk_integrity(cs, original_content) ==
    verify_content(
        verify_pairs(verify_bounds(fresh_results, cs, original_content), cs, 0),
        cs, original_content)

\* what verify_chunk_coverage raises when current.overlap_end cannot be read
AttributeError == "AttributeError: 'DocChunk' object has no attribute 'overlap_end'"

\* what verify_chunk_coverage raises when a pair does not meet
CoverageError == "ValueError: overlap between chunks is not correct"

\* verify_chunk_coverage(chunks): the error it raises, NoError (defined with
\* the session) being "" when it returns.  The pairs are visited in order;
\* a chunk is a DocChunk, whose attributes are the fields of the record
verify_chunk_coverage(cs) ==
    LET pairs   == 1..(Len(cs) - 1)
        missing == {i \in pairs : "overlap_end" \notin DOMAIN cs[i]}
        wrong   == {i \in pairs :
                       /\ "overlap_end" \in DOMAIN cs[i]
                       /\ cs[i].position.char_end - cs[i].overlap_end
                             # cs[i + 1].position.char_start}
    IN  IF missing \cup wrong = {} THEN ""
        ELSE IF SetMin(missing \cup wrong) \in missing THEN AttributeError
        ELSE CoverageError

\* a / b as Python computes it for the ratios: the fraction a over b
Divide(a, b) == <<a, b>>

\* the literal 0 the ratios take when nothing is stored
Zero == <<0, 1>>

\* analyze_overlap_efficiency that counts the stored span as content
analyze_overlap_efficiency_counts_stored(cs) ==
    LET total_content == Sum([i \in 1..Len(cs) |-> total_length(cs[i].position)])
        total_overlap_ == Sum([i \in 1..Len(cs) |-> total_overlap(cs[i].position)])
        total_stored == Sum([i \in 1..Len(cs) |-> Len(cs[i].content)])
    IN  [content_length |-> total_content,
         total_overlap  |-> total_overlap_,
         total_stored   |-> total_stored,
         overlap_ratio  |-> IF total_stored > 0 THEN Divide(total_overlap_, total_stored) ELSE Zero,
         efficiency     |-> IF total_stored > 0 THEN Divide(total_content, total_stored) ELSE Zero]

\* analyze_overlap_efficiency(chunks)
analyze_overlap_efficiency(cs) ==
    LET total_content == Sum([i \in 1..Len(cs) |-> content_length(cs[i].position)])
        total_overlap_ == Sum([i \in 1..Len(cs) |-> total_overlap(cs[i].position)])
        total_stored == Sum([i \in 1..Len(cs) |-> Len(cs[i].content)])
    IN  [content_length |-> total_content,
         total_overlap  |-> total_overlap_,
         total_stored   |-> total_stored,
         overlap_ratio  |-> IF total_stored > 0 THEN Divide(total_overlap_, total_stored) ELSE Zero,
         efficiency     |-> IF total_stored > 0 THEN Divide(total_content, total_stored) ELSE Zero]

-----------------------------------------------------------------------------
(* The chunking session: one Document, one DocumentProcessor, one caller *)

DocIds == {"docA", "docB"}

NoError == ""

\* what op holds: the last call, the doc_id of its argument, and how it ended
Returned(call, arg) == [call |-> call, arg |-> arg, raised |-> FALSE, error |-> NoError]

Raised(call, arg, error) == [call |-> call, arg |-> arg, raised |-> TRUE, error |-> error]

EmptyContentError == "ValueError: document content is empty"

OwnershipError == "ValueError: chunk does not belong to this document"

PositionError == "ValueError: start position greater than end position"

NoInput == [chunks |-> <<>>, original_content |-> NoneStr]

NoReport == [coverage_complete |-> TRUE, overlaps_correct |-> TRUE,
             content_matches |-> TRUE, issues |-> <<"not run">>]

NoPos == [built |-> FALSE, raised |-> FALSE]

NoCall == [content |-> NoneStr, position |-> -1]

NoResult == -1

NoMetrics == [called |-> FALSE]

NoThreads == <<>>

NoSums == [files |-> <<>>, out |-> <<>>]

\* the variables of the calls a session does not make
QuietCalls ==
    /\ fin = NoCall
    /\ fout = NoResult
    /\ metrics = NoMetrics
    /\ threads = NoThreads
    /\ sums = NoSums

\* the contents a Document is created with: None, "" and every string up to MaxLen
Contents == {NoneStr} \cup SeqsUpTo(Alphabet, MaxLen)

\* a chunk a caller builds by hand for add_chunk: one character of text at offset 0
caller_chunk(doc_id, index, t) ==
    DocChunk(format_chunk_id(doc_id, index), index, <<97>>,
             DocChunkPosition(0, 1, 1, 1, 0, 0, 0, 0), doc_id, 0, 1, t)

Init ==
    /\ \E content \in Contents :
           doc = Document("docA", DefaultChunkSize, DefaultChunkOverlap, content, 1)
    /\ \E chunk_size \in 1..MaxChunkSize, chunk_overlap \in 1..MaxOverlap :
           proc = DocumentProcessor(chunk_size, chunk_overlap)
    /\ pc = "idle"
    /\ start = 0
    /\ chunk_index = 0
    /\ chunks = <<>>
    /\ op = Returned("Document", "docA")
    /\ now = 1
    /\ calls = 0
    /\ adds = 0
    /\ vin = NoInput
    /\ report = NoReport
    /\ pos = NoPos
    /\ QuietCalls

\* process_document(doc) is called with empty or missing content: lines 197-198
ProcessDocumentEmpty ==
    /\ pc = "idle"
    /\ calls < MaxCalls
    /\ content_is_empty(doc.content)
    /\ calls' = calls + 1
    /\ op' = Raised("process_document", doc.doc_id, EmptyContentError)
    /\ UNCHANGED <<doc, proc, pc, start, chunk_index, chunks, now, adds, vin, report, pos, fin, fout, metrics, threads, sums>>

\* process_document(doc) is called and enters _create_chunks: lines 197-213
ProcessDocumentCall ==
    /\ pc = "idle"
    /\ calls < MaxCalls
    /\ ~content_is_empty(doc.content)
    /\ calls' = calls + 1
    /\ pc' = "loop"
    /\ start' = 0
    /\ chunk_index' = 0
    /\ chunks' = <<>>
    /\ UNCHANGED <<doc, proc, op, now, adds, vin, report, pos, fin, fout, metrics, threads, sums>>

\* one iteration of the while loop of _create_chunks: lines 215-271
CreateChunksStep ==
    /\ pc = "loop"
    /\ start < Len(doc.content)
    /\ chunk_index <= MaxLen
    /\ IF loop_position_raises(proc, doc, start, chunk_index)
       THEN /\ pc' = "idle"
            /\ op' = Raised("process_document", doc.doc_id, PositionError)
            /\ UNCHANGED <<start, chunk_index, chunks, now>>
       ELSE /\ chunks' = Append(chunks, loop_chunk(proc, doc, start, chunk_index, now + 1))
            /\ now' = now + 1
            /\ start' = core_end(doc.content, start, proc.chunk_size)
            /\ chunk_index' = chunk_index + 1
            /\ UNCHANGED <<pc, op>>
    /\ UNCHANGED <<doc, proc, calls, adds, vin, report, pos, fin, fout, metrics, threads, sums>>

\* the loop of _create_chunks ends and process_document appends the chunks one
\* by one, up to the first that add_chunk rejects, and returns: lines 215,
\* 273, 202-205
ProcessDocumentReturn ==
    /\ pc = "loop"
    /\ ~(start < Len(doc.content))
    /\ pc' = "idle"
    /\ IF add_chunks_raises(doc, chunks)
       THEN /\ doc' = add_chunks(doc, added_before_raise(doc, chunks), now)
            /\ now' = now + Len(added_before_raise(doc, chunks))
            /\ op' = Raised("process_document", doc.doc_id, OwnershipError)
       ELSE /\ doc' = add_chunks(doc, chunks, now)
            /\ now' = now + Len(chunks)
            /\ op' = Returned("process_document", doc.doc_id)
    /\ UNCHANGED <<proc, start, chunk_index, chunks, calls, adds, vin, report, pos, fin, fout, metrics, threads, sums>>

\* a caller builds a chunk and calls doc.add_chunk(chunk): lines 172-177
AddChunk ==
    /\ pc = "idle"
    /\ adds < MaxAdds
    /\ adds' = adds + 1
    /\ \E doc_id \in DocIds, index \in {0, Len(doc.chunks)} :
          LET chunk == caller_chunk(doc_id, index, now + 1)
          IN  IF add_chunk_raises(doc, chunk)
              THEN /\ op' = Raised("add_chunk", doc_id, OwnershipError)
                   /\ now' = now + 1
                   /\ doc' = add_chunk(doc, chunk, now + 2)
              ELSE /\ op' = Returned("add_chunk", doc_id)
                   /\ now' = now + 2
                   /\ doc' = add_chunk(doc, chunk, now + 2)
    /\ UNCHANGED <<proc, pc, start, chunk_index, chunks, calls, vin, report, pos, fin, fout, metrics, threads, sums>>

Next ==
    \/ ProcessDocumentEmpty
    \/ ProcessDocumentCall
    \/ CreateChunksStep
    \/ ProcessDocumentReturn
    \/ AddChunk

Spec == Init /\ [][Next]_vars

-----------------------------------------------------------------------------
(* Properties of the chunking session *)

\* process_document has just returned normally
ProcessReturned == pc = "idle" /\ op = Returned("process_document", doc.doc_id)

\* the chunks the last process_document call appended to the Document
ProducedChunks ==
    SubSeq(doc.chunks, Len(doc.chunks) - Len(chunks) + 1, Len(doc.chunks))

\* the core spans of cs tile [lo, hi): first starts at lo, last ends at hi,
\* each ends where the next starts
Tiles(cs, lo, hi) ==
    IF cs = <<>> THEN lo = hi
    ELSE /\ cs[1].position.content_start = lo
         /\ cs[Len(cs)].position.content_end = hi
         /\ \A i \in 1..(Len(cs) - 1) :
                cs[i].position.content_end = cs[i + 1].position.content_start

\* C1: round-trip law.  When process_document returns, concatenating
\* content_without_overlap over the chunks it appended gives back the
\* document content exactly.
RoundTrip ==
    ProcessReturned => reconstruct_content(ProducedChunks) = doc.content

\* C1 witness: a returned run of at least three chunks, one of them carrying
\* overlap on both sides, whose reconstruction is the content.
RoundTripWitness ==
    /\ ProcessReturned
    /\ Len(ProducedChunks) >= 3
    /\ \E i \in 1..Len(ProducedChunks) :
          /\ ProducedChunks[i].position.overlap_start > 0
          /\ ProducedChunks[i].position.overlap_end > 0
    /\ reconstruct_content(ProducedChunks) = doc.content

\* C2: every iteration of the chunking loop advances the cursor: with
\* start < len(content), the authoritative core end is greater than start.
LoopAdvances ==
    (pc = "loop" /\ start < Len(doc.content))
        => core_end(doc.content, start, proc.chunk_size) > start

\* C3: monotonic coverage.  At every loop iteration the core spans emitted so
\* far tile [0, start); when process_document returns, the appended chunks are
\* not empty and their core spans tile [0, len(content)).
MonotonicCoverage ==
    /\ pc = "loop" => Tiles(chunks, 0, start)
    /\ ProcessReturned =>
          /\ ProducedChunks # <<>>
          /\ Tiles(ProducedChunks, 0, Len(doc.content))

\* C3 witness: a returned run of at least three chunks in which a cut was
\* moved to a boundary (a core span longer than chunk_size).
MonotonicCoverageWitness ==
    /\ ProcessReturned
    /\ Len(ProducedChunks) >= 3
    /\ \E i \in 1..Len(ProducedChunks) :
          content_length(ProducedChunks[i].position) > proc.chunk_size
    /\ Tiles(ProducedChunks, 0, Len(doc.content))

\* C4: overlap symmetry.  In the chunks process_document appended, wherever
\* chunk i has overlap_end > 0, its overlap_with_next is the same string as
\* chunk i+1's overlap_with_previous.
OverlapSymmetry ==
    ProcessReturned =>
        \A i \in 1..(Len(ProducedChunks) - 1) :
            ProducedChunks[i].position.overlap_end > 0 =>
                overlap_with_next(ProducedChunks[i])
                    = overlap_with_previous(ProducedChunks[i + 1])

\* C5: overlap clamping.  Every emitted chunk has overlap_start = 0 if it is
\* the first and min(chunk_overlap, content_start) otherwise, and overlap_end =
\* 0 if its core ends the document and min(chunk_overlap, len - content_end)
\* otherwise; in a returned run the last chunk's core ends the document.
OverlapClamping ==
    /\ \A i \in 1..Len(chunks) :
          LET q == chunks[i].position
          IN  /\ q.overlap_start =
                    (IF i = 1 THEN 0 ELSE Min(proc.chunk_overlap, q.content_start))
              /\ q.overlap_end =
                    (IF q.content_end = Len(doc.content) THEN 0
                     ELSE Min(proc.chunk_overlap, Len(doc.content) - q.content_end))
              /\ q.char_start >= 0
              /\ q.char_end <= Len(doc.content)
    /\ ProcessReturned =>
          LET n == Len(ProducedChunks)
          IN  /\ n > 0
              /\ ProducedChunks[1].position.overlap_start = 0
              /\ ProducedChunks[n].position.overlap_end = 0
              /\ \A i \in 1..(n - 1) :
                    ProducedChunks[i].position.overlap_end =
                        Min(proc.chunk_overlap,
                            Len(doc.content) - ProducedChunks[i].position.content_end)
              /\ \A i \in 2..n :
                    ProducedChunks[i].position.overlap_start =
                        Min(proc.chunk_overlap, ProducedChunks[i].position.content_start)

\* C5 witness: a returned run in which the second-to-last chunk's overlap_end
\* and the second chunk's overlap_start are both clamped below chunk_overlap.
OverlapClampingWitness ==
    /\ ProcessReturned
    /\ Len(ProducedChunks) >= 2
    /\ LET n == Len(ProducedChunks)
       IN  /\ ProducedChunks[n - 1].position.overlap_end > 0
           /\ ProducedChunks[n - 1].position.overlap_end < proc.chunk_overlap
           /\ ProducedChunks[2].position.overlap_start > 0
           /\ ProducedChunks[2].position.overlap_start < proc.chunk_overlap
           /\ ProducedChunks[n].position.overlap_end = 0

\* C6: ownership check.  A call of add_chunk with a chunk of another doc_id
\* raises the ownership error and leaves doc.chunks and doc.updated_at as they
\* were; a chunk of the Document's own doc_id is appended.
OwnershipCheck ==
    [][adds' # adds =>
          IF op'.arg # doc.doc_id
          THEN /\ op' = Raised("add_chunk", op'.arg, OwnershipError)
               /\ doc'.chunks = doc.chunks
               /\ doc'.updated_at = doc.updated_at
          ELSE /\ op' = Returned("add_chunk", doc.doc_id)
               /\ Len(doc'.chunks) = Len(doc.chunks) + 1]_vars

\* C6 witness: add_chunk was rejected on a Document that already holds chunks.
OwnershipCheckWitness ==
    /\ op = Raised("add_chunk", "docB", OwnershipError)
    /\ doc.chunks # <<>>
    /\ doc.updated_at > doc.created_at

\* C7: process_document on empty or missing content raises the empty-content
\* error and leaves the Document, its chunks and updated_at included, as it was.
EmptyContentRejected ==
    [][(calls' # calls /\ (doc.content = NoneStr \/ doc.content = <<>>)) =>
          /\ op' = Raised("process_document", doc.doc_id, EmptyContentError)
          /\ pc' = "idle"
          /\ doc'.chunks = doc.chunks
          /\ doc'.updated_at = doc.updated_at]_vars

\* C7 witness: the empty-content error was raised on a Document that already
\* holds a chunk.
EmptyContentRejectedWitness ==
    /\ op = Raised("process_document", doc.doc_id, EmptyContentError)
    /\ doc.content = <<>>
    /\ doc.chunks # <<>>

\* C13: Document ownership invariant.  Starting from an empty chunk list, after
\* any sequence of add_chunk calls, accepted or rejected, and process_document
\* calls, every chunk in doc.chunks carries the Document's doc_id.
OwnershipInvariant ==
    \A i \in 1..Len(doc.chunks) : doc.chunks[i].doc_id = doc.doc_id

\* C13 witness: add_chunk with a foreign chunk was just rejected on a Document
\* that holds chunks of process_document, all of them its own.
OwnershipInvariantWitness ==
    /\ op = Raised("add_chunk", "docB", OwnershipError)
    /\ calls > 0
    /\ Len(doc.chunks) >= 2
    /\ \A i \in 1..Len(doc.chunks) : doc.chunks[i].doc_id = doc.doc_id

\* C14: insertion order is chunk_index order and chunk_ids are unique.  After
\* any sequence of process_document calls on a Document that started with no
\* chunks (no add_chunk call in between), doc.chunks[i].chunk_index = i for
\* every i (from 0) and no two chunks share a chunk_id.
ChunkIndexOrder ==
    (adds = 0 /\ pc = "idle") =>
        /\ \A i \in 1..Len(doc.chunks) : doc.chunks[i].chunk_index = i - 1
        /\ \A i, j \in 1..Len(doc.chunks) :
              doc.chunks[i].chunk_id = doc.chunks[j].chunk_id => i = j

\* the sequence p is a prefix of the sequence q
IsPrefix(p, q) == Len(p) <= Len(q) /\ SubSeq(q, 1, Len(p)) = p

\* a step of process_document: the call itself, an iteration, or the return
ProcessDocumentStep == calls' # calls \/ pc = "loop"

\* C16: frame of process_document.  No step of a call changes doc.content,
\* doc.doc_id, doc.chunk_size, doc.chunk_overlap, doc.created_at or the
\* processor's chunk_size and chunk_overlap, and the chunks the Document held
\* stay, unmodified, a prefix of doc.chunks.
ProcessDocumentFrame ==
    [][ProcessDocumentStep =>
          /\ doc'.content = doc.content
          /\ doc'.doc_id = doc.doc_id
          /\ doc'.chunk_size = doc.chunk_size
          /\ doc'.chunk_overlap = doc.chunk_overlap
          /\ doc'.created_at = doc.created_at
          /\ proc' = proc
          /\ IsPrefix(doc.chunks, doc'.chunks)]_vars

\* C16 witness: a second process_document call returned on a Document that
\* held chunks before it, and they are the prefix of the longer list.
ProcessDocumentFrameWitness ==
    /\ ProcessReturned
    /\ calls = 2
    /\ chunks # <<>>
    /\ Len(doc.chunks) > Len(chunks)
    /\ doc.updated_at > doc.created_at
    /\ doc.chunk_size = DefaultChunkSize
    /\ proc.chunk_size # doc.chunk_size

\* C21: every chunk the loop has emitted, in a finished run or not, has a
\* consistent position: 0 <= char_start <= content_start <= content_end <=
\* char_end <= len(C), char_start = content_start - overlap_start, char_end =
\* content_end + overlap_end, line_start <= line_end, and len(content) =
\* actual_chunk_size = char_end - char_start; the core end is never before the
\* cursor.
EmittedPositionsConsistent ==
    /\ \A i \in 1..Len(chunks) :
          LET q == chunks[i].position
          IN  /\ 0 <= q.char_start
              /\ q.char_start <= q.content_start
              /\ q.content_start <= q.content_end
              /\ q.content_end <= q.char_end
              /\ q.char_end <= Len(doc.content)
              /\ q.char_start = q.content_start - q.overlap_start
              /\ q.char_end = q.content_end + q.overlap_end
              /\ q.line_start <= q.line_end
              /\ Len(chunks[i].content) = chunks[i].actual_chunk_size
              /\ Len(chunks[i].content) = q.char_end - q.char_start
    /\ (pc = "loop" /\ start < Len(doc.content))
          => core_end(doc.content, start, proc.chunk_size) >= start

\* C21 witness: an unfinished run has emitted a chunk with an empty core and
\* overlap on both sides, that spans two lines.
EmittedPositionsConsistentWitness ==
    /\ pc = "loop"
    /\ start < Len(doc.content)
    /\ \E i \in 1..Len(chunks) :
          LET q == chunks[i].position
          IN  /\ q.content_start = q.content_end
              /\ q.overlap_start > 0
              /\ q.overlap_end > 0
              /\ q.line_start < q.line_end
              /\ Len(chunks[i].content) = q.overlap_start + q.overlap_end

\* C23: the Document's target configuration is copied into its chunks: every
\* chunk process_document(doc) builds has target_chunk_size = doc.chunk_size,
\* whatever the processor's own configuration is.
TargetSizeCopied ==
    \A i \in 1..Len(chunks) : chunks[i].target_chunk_size = doc.chunk_size

-----------------------------------------------------------------------------
(* The verification session: verify_chunk_integrity on chunk lists a caller
   hands it, whether or not the Chunker produced them *)

\* a chunk built by hand, as the tests of the verifier build them
VChunk(content, char_start, char_end, overlap_start, overlap_end, content_start, content_end) ==
    DocChunk(format_chunk_id("docA", 0), 0, content,
             DocChunkPosition(char_start, char_end, 1, 1,
                              overlap_start, overlap_end, content_start, content_end),
             "docA", 0, count_tokens(content), 0)

\* the chunks the lists are made of: the two chunks of "a\n" and of "aa" with
\* one character of overlap, two chunks without overlap, a chunk whose core
\* span is inverted, a chunk whose overlaps exceed its content
VChunkSet ==
    {VChunk(<<97, 10>>, 0, 2, 0, 1, 0, 1),
     VChunk(<<97, 10>>, 0, 2, 1, 0, 1, 2),
     VChunk(<<97, 97>>, 0, 2, 0, 1, 0, 1),
     VChunk(<<97, 97>>, 0, 2, 1, 0, 1, 2),
     VChunk(<<97>>, 0, 1, 0, 0, 0, 1),
     VChunk(<<10>>, 1, 2, 0, 0, 1, 2),
     VChunk(<<97>>, 1, 2, 0, 0, 2, 1),
     VChunk(<<97>>, 0, 1, 1, 1, 1, 0)}

\* the original_content arguments: "", "a\n", "aa"
VOriginals == {<<>>, <<97, 10>>, <<97, 97>>}

\* the variables a session does not use
QuietDocument ==
    /\ doc = Document("docA", DefaultChunkSize, DefaultChunkOverlap, NoneStr, 1)
    /\ proc = DocumentProcessor(DefaultChunkSize, DefaultChunkOverlap)
    /\ pc = "idle"
    /\ start = 0
    /\ chunk_index = 0
    /\ chunks = <<>>
    /\ op = Returned("Document", "docA")
    /\ now = 1
    /\ calls = 0
    /\ adds = 0

InitVerify ==
    /\ QuietDocument
    /\ \E cs \in SeqsUpTo(VChunkSet, MaxVChunks), original_content \in VOriginals :
           vin = [chunks |-> cs, original_content |-> original_content]
    /\ report = NoReport
    /\ pos = NoPos
    /\ QuietCalls

\* ChunkVerifier.verify_chunk_integrity(chunks, original_content): lines 317-365
VerifyChunkIntegrity ==
    /\ op.call # "verify_chunk_integrity"
    /\ report' = verify_chunk_integrity(vin.chunks, vin.original_content)
    /\ op' = Returned("verify_chunk_integrity", "docA")
    /\ UNCHANGED <<doc, proc, pc, start, chunk_index, chunks, now, calls, adds, vin, pos, fin, fout, metrics, threads, sums>>

NextVerify == VerifyChunkIntegrity

SpecVerify == InitVerify /\ [][NextVerify]_vars

\* verify_chunk_integrity has returned
Verified == op.call = "verify_chunk_integrity"

\* the violations of a chunk list, counted one by one
FirstBoundFails(cs) == cs # <<>> /\ cs[1].position.content_start # 0

LastBoundFails(cs, original_content) ==
    cs # <<>> /\ cs[Len(cs)].position.content_end # Len(original_content)

BrokenPairs(cs) ==
    {i \in 1..(Len(cs) - 1) : cs[i].position.content_end # cs[i + 1].position.content_start}

MismatchedPairs(cs) ==
    {i \in 1..(Len(cs) - 1) :
        /\ cs[i].position.overlap_end > 0
        /\ overlap_with_next(cs[i]) # overlap_with_previous(cs[i + 1])}

ReconstructionFails(cs, original_content) == reconstruct_content(cs) # original_content

One(b) == IF b THEN 1 ELSE 0

ViolationCount(cs, original_content) ==
    One(FirstBoundFails(cs)) + One(LastBoundFails(cs, original_content))
        + Cardinality(BrokenPairs(cs)) + Cardinality(MismatchedPairs(cs))
        + One(ReconstructionFails(cs, original_content))

\* C9: verify_chunk_integrity never fails fast.  For every chunk list and
\* original it returns a report; issues holds one entry per violation (each
\* failed bound, each broken pair, each mismatched overlap, the reconstruction
\* mismatch), and issues is empty exactly when the three booleans are True.
VerifierAccumulates ==
    Verified =>
        /\ ~op.raised
        /\ Len(report.issues) = ViolationCount(vin.chunks, vin.original_content)
        /\ (report.issues = <<>>) <=>
              (report.coverage_complete /\ report.overlaps_correct /\ report.content_matches)

\* C9 witness: a report on a three-chunk list that holds at least four issues,
\* two of them for different broken pairs.
VerifierAccumulatesWitness ==
    /\ Verified
    /\ Len(vin.chunks) = 3
    /\ Len(report.issues) >= 4
    /\ Cardinality(BrokenPairs(vin.chunks)) = 2

\* C10: the meaning of the three booleans.  coverage_complete is False iff the
\* first core span does not start at 0, or the last does not end at
\* len(original), or some consecutive pair does not join; overlaps_correct is
\* False iff some pair with overlap_end > 0 has different overlap strings;
\* content_matches is False iff the reconstruction differs from original.
VerifierBooleans ==
    Verified =>
        /\ ~report.coverage_complete <=>
              \/ FirstBoundFails(vin.chunks)
              \/ LastBoundFails(vin.chunks, vin.original_content)
              \/ BrokenPairs(vin.chunks) # {}
        /\ ~report.overlaps_correct <=> MismatchedPairs(vin.chunks) # {}
        /\ ~report.content_matches <=>
              ReconstructionFails(vin.chunks, vin.original_content)

\* C10 witness: a report in which coverage is complete and the content
\* matches although the overlaps are found incorrect.
VerifierBooleansWitness ==
    /\ Verified
    /\ report.coverage_complete
    /\ ~report.overlaps_correct
    /\ report.content_matches
    /\ Len(vin.chunks) >= 2

\* C28: coverage_complete is sound.  If verify_chunk_integrity reports
\* coverage_complete = True, the core spans of the chunks tile
\* [0, len(original_content)): the list is not empty unless the original is,
\* the first core starts at 0, the last ends at the length, each core ends
\* where the next starts, and no core is inverted.
CoverageSound ==
    (Verified /\ report.coverage_complete) =>
        /\ Tiles(vin.chunks, 0, Len(vin.original_content))
        /\ \A i \in 1..Len(vin.chunks) :
              vin.chunks[i].position.content_start <= vin.chunks[i].position.content_end

-----------------------------------------------------------------------------
(* The construction session: a caller builds one DocChunkPosition *)

InitPosition ==
    /\ QuietDocument
    /\ vin = NoInput
    /\ report = NoReport
    /\ pos = NoPos
    /\ QuietCalls

\* DocChunkPosition(char_start=..., ..., content_end=...): lines 28-54
NewPosition ==
    /\ ~pos.built
    /\ ~pos.raised
    /\ \E char_start \in 0..MaxPos, char_end \in 0..MaxPos,
          line_start \in 1..(MaxPos + 1), line_end \in 1..(MaxPos + 1),
          overlap_start \in 0..MaxPos, overlap_end \in 0..MaxPos,
          content_start \in 0..MaxPos, content_end \in 0..MaxPos :
          pos' = [built    |-> ~DocChunkPosition_raises(char_start, char_end),
                  raised   |-> DocChunkPosition_raises(char_start, char_end),
                  args     |-> [char_start |-> char_start, char_end |-> char_end,
                                line_start |-> line_start, line_end |-> line_end,
                                overlap_start |-> overlap_start, overlap_end |-> overlap_end,
                                content_start |-> content_start, content_end |-> content_end],
                  position |-> DocChunkPosition(char_start, char_end, line_start, line_end,
                                                overlap_start, overlap_end,
                                                content_start, content_end)]
    /\ UNCHANGED <<doc, proc, pc, start, chunk_index, chunks, op, now, calls, adds, vin, report, fin, fout, metrics, threads, sums>>

NextPosition == NewPosition

SpecPosition == InitPosition /\ [][NextPosition]_vars

\* C8: no DocChunkPosition exists with char_start > char_end or with
\* line_start > line_end: the constructor raises on either.
PositionRejectsInconsistent ==
    pos.built =>
        /\ pos.position.char_start <= pos.position.char_end
        /\ pos.position.line_start <= pos.position.line_end

\* C17: every constructed Position has content_start = char_start +
\* overlap_start and content_end = char_end - overlap_end, whether the caller
\* left content_start and content_end to default or supplied them.
PositionCoreDerived ==
    pos.built =>
        /\ pos.position.content_start
              = pos.position.char_start + pos.position.overlap_start
        /\ pos.position.content_end
              = pos.position.char_end - pos.position.overlap_end

-----------------------------------------------------------------------------
(* The audit session: one process_document call, on a short content or on a
   long content with full stops around the first proposed cut, and one
   analyze_overlap_efficiency call on the chunks the Document holds *)

\* DocumentProcessor(chunk_size=1000, chunk_overlap=100) of the usage example
ScenarioChunkSize == 1000

ScenarioOverlap == 100

\* the length of the long boundary-free content
ScenarioLen == 2600

\* how far around the edges of the search windows the full stops are placed
EdgeSlack == 2

\* '。', the first of boundary_chars
FullStop == 12290

\* distances from a proposed cut: around the far end of the backward reach,
\* around the cut, around the far end of the forward window
EdgeOffsets ==
    ((-SearchWindow - EdgeSlack)..(-SearchWindow + EdgeSlack))
        \cup ((-EdgeSlack)..EdgeSlack)
        \cup ((SearchWindow - EdgeSlack)..(SearchWindow + EdgeSlack))

\* 'a' * n with the characters at the offsets (from 0) in marks replaced by mark
Marked(n, marks, mark) == [i \in 1..n |-> IF (i - 1) \in marks THEN mark ELSE 97]

\* no offset: a place for a full stop that is left out
NoMark == -1

LongLens == {ScenarioChunkSize + SearchWindow + EdgeSlack + 1, ScenarioLen}

\* long contents with at most two full stops near offset ScenarioChunkSize
LongContents ==
    LET places == {NoMark} \cup {ScenarioChunkSize + d : d \in EdgeOffsets}
    IN  {Marked(n, {x, y} \ {NoMark}, FullStop) : n \in LongLens, x \in places, y \in places}

InitAudit ==
    /\ \E content \in Contents \cup LongContents :
           /\ doc = Document("docA", DefaultChunkSize, DefaultChunkOverlap, content, 1)
           /\ IF Len(content) > MaxLen
              THEN proc = DocumentProcessor(ScenarioChunkSize, ScenarioOverlap)
              ELSE \E chunk_size \in 1..MaxChunkSize, chunk_overlap \in 1..MaxOverlap :
                       proc = DocumentProcessor(chunk_size, chunk_overlap)
    /\ pc = "idle"
    /\ start = 0
    /\ chunk_index = 0
    /\ chunks = <<>>
    /\ op = Returned("Document", "docA")
    /\ now = 1
    /\ calls = 0
    /\ adds = 0
    /\ vin = NoInput
    /\ report = NoReport
    /\ pos = NoPos
    /\ QuietCalls

\* the one process_document call of the session, on empty or missing content
AuditEmpty == calls = 0 /\ ProcessDocumentEmpty

\* the one process_document call of the session
AuditCall == calls = 0 /\ ProcessDocumentCall

\* ChunkVerifier.analyze_overlap_efficiency(doc.chunks): lines 381-393
AnalyzeOverlapEfficiency ==
    /\ pc = "idle"
    /\ ~metrics.called
    /\ metrics' = [called |-> TRUE,
                   chunks |-> doc.chunks,
                   result |-> analyze_overlap_efficiency(doc.chunks)]
    /\ UNCHANGED <<doc, proc, pc, start, chunk_index, chunks, op, now, calls, adds, vin, report, pos, fin, fout, threads, sums>>

\* verify_chunk_coverage(doc.chunks) on the processed Document: lines 14-24
VerifyChunkCoverage ==
    /\ ProcessReturned
    /\ ~metrics.called
    /\ op' = IF verify_chunk_coverage(doc.chunks) = NoError
             THEN Returned("verify_chunk_coverage", doc.doc_id)
             ELSE Raised("verify_chunk_coverage", doc.doc_id, verify_chunk_coverage(doc.chunks))
    /\ UNCHANGED <<doc, proc, pc, start, chunk_index, chunks, now, calls, adds, vin, report, pos, fin, fout, metrics, threads, sums>>

NextAudit ==
    \/ AuditEmpty
    \/ AuditCall
    \/ CreateChunksStep
    \/ ProcessDocumentReturn
    \/ AnalyzeOverlapEfficiency
    \/ VerifyChunkCoverage

SpecAudit == InitAudit /\ [][NextAudit]_vars

\* content holds no boundary character
BoundaryFree(content) == \A i \in 1..Len(content) : content[i] \notin boundary_chars

\* ceil(a / b) for b > 0
CeilDiv(a, b) == (a + b - 1) \div b

\* C11: hard cuts on boundary-free text.  When process_document returns on a
\* content of length L without boundary characters, with chunk_size S, it has
\* produced exactly ceil(L/S) chunks, chunk k (from 0) with the core span
\* [k*S, min((k+1)*S, L)), the first with overlap_start 0 and the last with
\* overlap_end 0 (for L=2600, S=1000: 3 chunks, from 0 to 2600).
HardCuts ==
    (ProcessReturned /\ BoundaryFree(doc.content)) =>
        LET L == Len(doc.content)
            S == proc.chunk_size
            n == Len(ProducedChunks)
        IN  /\ n = CeilDiv(L, S)
            /\ \A k \in 0..(n - 1) :
                  /\ ProducedChunks[k + 1].position.content_start = k * S
                  /\ ProducedChunks[k + 1].position.content_end = Min((k + 1) * S, L)
            /\ ProducedChunks[1].position.overlap_start = 0
            /\ ProducedChunks[n].position.overlap_end = 0

\* C11 witness: the 2600-character content without boundary characters, cut
\* with chunk_size 1000 and overlap 100, came back as 3 chunks from 0 to 2600.
HardCutsWitness ==
    /\ ProcessReturned
    /\ BoundaryFree(doc.content)
    /\ Len(doc.content) = ScenarioLen
    /\ proc = DocumentProcessor(ScenarioChunkSize, ScenarioOverlap)
    /\ Len(ProducedChunks) = 3
    /\ ProducedChunks[1].position.content_start = 0
    /\ ProducedChunks[1].position.overlap_start = 0
    /\ ProducedChunks[3].position.content_end = ScenarioLen
    /\ ProducedChunks[3].position.overlap_end = 0

\* the offset of the full stop of the boundary scenario: two before the raw cut
ScenarioBoundary == ScenarioChunkSize - 2

\* content is longer than chunk_size 1000, holds '。' at offset 998 and no other
\* boundary character within 100 characters of offset 1000
BoundaryScenario ==
    /\ proc.chunk_size = ScenarioChunkSize
    /\ Len(doc.content) > ScenarioChunkSize
    /\ doc.content[ScenarioBoundary + 1] = FullStop
    /\ \A j \in 0..(Len(doc.content) - 1) :
          (/\ j # ScenarioBoundary
           /\ j >= ScenarioChunkSize - SearchWindow
           /\ j <= ScenarioChunkSize + SearchWindow)
              => doc.content[j + 1] \notin boundary_chars

\* C12: boundary scenario.  With chunk_size 1000 and a content longer than
\* 1000 characters whose '。' sits at offset 998, no other boundary character
\* being within 100 characters of offset 1000, the first chunk's core ends at
\* 999, just after the '。', not at the raw offset 1000.
BoundaryCut ==
    (BoundaryScenario /\ chunks # <<>>) =>
        /\ chunks[1].position.content_start = 0
        /\ chunks[1].position.content_end = ScenarioBoundary + 1
        /\ Len(chunks) > 1 => chunks[2].position.content_start = ScenarioBoundary + 1

\* C12 witness: the scenario's run returned, the first core ending at 999 and
\* the content holding a second full stop out of reach of the search.
BoundaryCutWitness ==
    /\ ProcessReturned
    /\ BoundaryScenario
    /\ ~BoundaryFree(PySlice(doc.content, 0, ScenarioBoundary))
    /\ ProducedChunks[1].position.content_end = ScenarioBoundary + 1
    /\ ProducedChunks[1].content[ScenarioBoundary + 1] = FullStop

\* C15: offset mapping round trip.  For every chunk c process_document
\* produced over content C and every relative offset r, 0 <= r <
\* len(c.content): get_relative_position(get_absolute_position(r)) = r and
\* C[get_absolute_position(r)] is the character c.content[r].
OffsetMapping ==
    ProcessReturned =>
        \A i \in 1..Len(ProducedChunks) :
            LET c == ProducedChunks[i]
            IN  \A r \in 0..(Len(c.content) - 1) :
                    /\ get_relative_position(c, get_absolute_position(c, r)) = r
                    /\ get_absolute_position(c, r) \in 0..(Len(doc.content) - 1)
                    /\ doc.content[get_absolute_position(c, r) + 1] = c.content[r + 1]

\* C15 witness: a returned run with a chunk that starts inside the document
\* with overlap before its core, whose last character maps to a newline of
\* the document.
OffsetMappingWitness ==
    /\ ProcessReturned
    /\ \E i \in 1..Len(ProducedChunks) :
          LET c == ProducedChunks[i]
              r == Len(c.content) - 1
          IN  /\ c.position.char_start > 0
              /\ c.position.overlap_start > 0
              /\ r > 0
              /\ c.content[r + 1] = Newline
              /\ doc.content[get_absolute_position(c, r) + 1] = Newline
              /\ get_relative_position(c, get_absolute_position(c, r)) = r

\* C18: analyze_overlap_efficiency reports content_length, total_overlap and
\* total_stored as the sums over the chunks of position.content_length,
\* position.total_overlap and len(content); for the chunks process_document
\* produced over content C, content_length = len(C) and total_stored =
\* content_length + total_overlap; for an empty list all three are 0 and both
\* ratios are 0.
OverlapEfficiency ==
    metrics.called =>
        LET cs == metrics.chunks
            r  == metrics.result
        IN  /\ r.content_length = Sum([i \in 1..Len(cs) |-> cs[i].position.content_end - cs[i].position.content_start])
            /\ r.total_overlap = Sum([i \in 1..Len(cs) |-> cs[i].position.overlap_start + cs[i].position.overlap_end])
            /\ r.total_stored = Sum([i \in 1..Len(cs) |-> Len(cs[i].content)])
            /\ cs # <<>> =>
                  /\ r.content_length = Len(doc.content)
                  /\ r.total_stored = r.content_length + r.total_overlap
            /\ cs = <<>> =>
                  /\ r.content_length = 0
                  /\ r.total_overlap = 0
                  /\ r.total_stored = 0
                  /\ r.overlap_ratio = Zero
                  /\ r.efficiency = Zero

\* C18 witness: the analysis of a produced list of at least three chunks that
\* store overlap on top of their cores.
OverlapEfficiencyWitness ==
    /\ metrics.called
    /\ ProcessReturned
    /\ Len(metrics.chunks) >= 3
    /\ metrics.chunks = ProducedChunks
    /\ metrics.result.total_overlap > 0
    /\ metrics.result.content_length = Len(doc.content)
    /\ metrics.result.total_stored > metrics.result.content_length

\* C22: the derived views of a produced chunk are slices of the original text.
\* For every chunk c process_document produced over content C: c.content =
\* C[char_start:char_end], content_without_overlap = C[content_start:content_end],
\* overlap_with_previous = C[char_start:content_start], overlap_with_next =
\* C[content_end:char_end], and the three views concatenate to c.content.
DerivedViews ==
    ProcessReturned =>
        \A i \in 1..Len(ProducedChunks) :
            LET c == ProducedChunks[i]
                q == c.position
                C == doc.content
            IN  /\ c.content = PySlice(C, q.char_start, q.char_end)
                /\ content_without_overlap(c) = PySlice(C, q.content_start, q.content_end)
                /\ overlap_with_previous(c) = PySlice(C, q.char_start, q.content_start)
                /\ overlap_with_next(c) = PySlice(C, q.content_end, q.char_end)
                /\ overlap_with_previous(c) \o content_without_overlap(c) \o overlap_with_next(c)
                      = c.content

\* C22 witness: a produced chunk with unequal overlaps on its two sides, a
\* newline in its core, and its three views adding up to its content.
DerivedViewsWitness ==
    /\ ProcessReturned
    /\ \E i \in 1..Len(ProducedChunks) :
          LET c == ProducedChunks[i]
          IN  /\ c.position.overlap_start > c.position.overlap_end
              /\ c.position.overlap_end > 0
              /\ \E k \in 1..Len(content_without_overlap(c)) :
                    content_without_overlap(c)[k] = Newline
              /\ Len(overlap_with_previous(c)) = c.position.overlap_start
              /\ Len(overlap_with_next(c)) = c.position.overlap_end
              /\ overlap_with_previous(c) \o content_without_overlap(c) \o overlap_with_next(c)
                    = c.content

\* C29: verify_chunk_coverage accepts every chunk sequence process_document
\* produced: called on the chunks of a processed Document it completes
\* without raising.
CoverageAccepts ==
    op.call = "verify_chunk_coverage" => ~op.raised

\* C27: position lookup returns a chunk that holds the character.  For a
\* Document chunked by process_document over content C and every offset p,
\* 0 <= p < len(C), get_chunk_by_position(p) returns a chunk c with
\* 0 <= c.get_relative_position(p) < len(c.content) and
\* c.content[c.get_relative_position(p)] = C[p].
LookupHoldsCharacter ==
    ProcessReturned =>
        \A p \in 0..(Len(doc.content) - 1) :
            LET k == get_chunk_by_position(doc, p)
            IN  /\ k # 0
                /\ LET c == doc.chunks[k]
                       r == get_relative_position(c, p)
                   IN  /\ 0 <= r
                       /\ r < Len(c.content)
                       /\ c.content[r + 1] = doc.content[p + 1]

-----------------------------------------------------------------------------
(* The boundary session: _find_split_boundary called on its own, on contents
   with boundary characters of two kinds around the edges of its windows *)

\* the proposed cuts: at the head of the content, inside the first window,
\* at the reach of the backward search and beyond it
CutPositions ==
    {0, EdgeSlack, SearchWindow - 1, SearchWindow, SearchWindow + EdgeSlack, 2 * SearchWindow}

\* how many characters follow the proposed cut: one, a window, more than a window
TailLens == {1, SearchWindow, SearchWindow + EdgeSlack + 1}

\* 'a' * n with '。' at offset x and '\n' at offset y (NoMark: left out)
TwoMarked(n, x, y) ==
    [i \in 1..n |-> IF i - 1 = x THEN FullStop ELSE IF i - 1 = y THEN Newline ELSE 97]

\* the calls _find_split_boundary(content, position) of the session
BoundaryCalls ==
    UNION {LET places == {NoMark} \cup {position + d : d \in EdgeOffsets}
           IN  {[content |-> TwoMarked(position + tail, x, y), position |-> position] :
                   tail \in TailLens, x \in places, y \in places} :
           position \in CutPositions}

InitBoundary ==
    /\ QuietDocument
    /\ vin = NoInput
    /\ report = NoReport
    /\ pos = NoPos
    /\ metrics = NoMetrics
    /\ threads = NoThreads
    /\ sums = NoSums
    /\ fin \in BoundaryCalls
    /\ fout = NoResult

\* processor._find_split_boundary(content, position): lines 275-291
FindSplitBoundary ==
    /\ fout = NoResult
    /\ fout' = find_split_boundary(fin.content, fin.position)
    /\ UNCHANGED <<doc, proc, pc, start, chunk_index, chunks, op, now, calls, adds, vin, report, pos, fin, metrics, threads, sums>>

NextBoundary == FindSplitBoundary

SpecBoundary == InitBoundary /\ [][NextBoundary]_vars

\* the offsets of the forward window of the call that hold a boundary character
ForwardHits ==
    {j \in fin.position..(Min(fin.position + SearchWindow, Len(fin.content)) - 1) :
        fin.content[j + 1] \in boundary_chars}

\* the offsets among the up-to-100 characters before the proposed cut that
\* hold a boundary character
BackwardHits ==
    {j \in Max(0, fin.position - SearchWindow)..(fin.position - 1) :
        fin.content[j + 1] \in boundary_chars}

\* C19: forward search wins.  Whenever a boundary character lies in the
\* forward window content[position .. min(position+100, len(content)) - 1],
\* _find_split_boundary returns 1 + the smallest offset of the window that
\* holds one, of whatever kind, whatever lies before position.
ForwardWins ==
    (fout # NoResult /\ ForwardHits # {}) => fout = 1 + SetMin(ForwardHits)

\* C19 witness: a '\n' in the last place of the forward window won over a
\* '。' right before the proposed cut.
ForwardWinsWitness ==
    /\ fout # NoResult
    /\ fin.position >= SearchWindow
    /\ fin.content[fin.position] = FullStop
    /\ ForwardHits = {fin.position + SearchWindow - 1}
    /\ fin.content[fin.position + SearchWindow] = Newline
    /\ fout = fin.position + SearchWindow

\* C20: backward fallback reach.  When no boundary character lies in the
\* forward window but one lies among the up-to-100 characters before the
\* proposed cut (offsets max(0, position-100) .. position-1),
\* _find_split_boundary returns 1 + the offset of the one nearest to position.
BackwardReach ==
    (fout # NoResult /\ ForwardHits = {} /\ BackwardHits # {}) =>
        fout = 1 + (CHOOSE j \in BackwardHits : \A k \in BackwardHits : k <= j)

-----------------------------------------------------------------------------
(* The window session: one process_document call with a chunk_size about as
   large as the reach of the backward search, on contents with full stops
   around the edges of the search windows *)

\* the largest chunk_size the backward search can cancel: it returns at least
\* position - (SearchWindow - 2)
StallSize == SearchWindow - 2

WindowSizes == (StallSize - EdgeSlack)..(StallSize + EdgeSlack)

WindowLens == {2 * SearchWindow + EdgeSlack + 1, 3 * SearchWindow}

\* contents with at most two full stops near the offsets 0, 100 and 200
WindowContents ==
    LET places == {NoMark} \cup {p \in {SearchWindow + d : d \in EdgeOffsets} : p >= 0}
    IN  {Marked(n, {x, y} \ {NoMark}, FullStop) : n \in WindowLens, x \in places, y \in places}

InitWindow ==
    /\ \E content \in WindowContents :
           doc = Document("docA", DefaultChunkSize, DefaultChunkOverlap, content, 1)
    /\ \E chunk_size \in WindowSizes : proc = DocumentProcessor(chunk_size, ScenarioOverlap)
    /\ pc = "idle"
    /\ start = 0
    /\ chunk_index = 0
    /\ chunks = <<>>
    /\ op = Returned("Document", "docA")
    /\ now = 1
    /\ calls = 0
    /\ adds = 0
    /\ vin = NoInput
    /\ report = NoReport
    /\ pos = NoPos
    /\ QuietCalls

NextWindow ==
    \/ AuditCall
    \/ CreateChunksStep
    \/ ProcessDocumentReturn

SpecWindow == InitWindow /\ [][NextWindow]_vars

\* the loop is at an iteration
AtIteration == pc = "loop" /\ start < Len(doc.content)

\* C25: minimum advance for large enough chunks.  Whenever chunk_size >= 99,
\* every loop iteration has end >= start + 1: it moves the cursor forward, by
\* a core span that is not empty and never past the end of the content, so
\* that there are at most len(C) iterations before process_document ends; an
\* iteration with end = start happens only with chunk_size <= 98.
MinimumAdvance ==
    [][AtIteration =>
          /\ proc.chunk_size > StallSize =>
                /\ core_end(doc.content, start, proc.chunk_size) >= start + 1
                /\ start' > start
                /\ start' <= Len(doc.content)
                /\ Len(chunks') = Len(chunks) + 1
                /\ Len(chunks') <= start'
                /\ content_length(chunks'[Len(chunks')].position) >= 1
          /\ core_end(doc.content, start, proc.chunk_size) = start
                => proc.chunk_size <= StallSize]_vars

\* C25 witness: with chunk_size 99 a run returned in which one iteration
\* advanced by exactly one character.
MinimumAdvanceWitness ==
    /\ ProcessReturned
    /\ proc.chunk_size = StallSize + 1
    /\ \E i \in 1..Len(ProducedChunks) :
          /\ i < Len(ProducedChunks)
          /\ content_length(ProducedChunks[i].position) = 1

\* a stalled iteration with the largest chunk_size that allows one
StallAtStallSize ==
    /\ AtIteration
    /\ proc.chunk_size = StallSize
    /\ core_end(doc.content, start, proc.chunk_size) = start

\* C26: core length bounds.  In every produced chunk sequence each core is at
\* most chunk_size + 100 long, every core but the last is at least
\* chunk_size - 98 long, and every stored content is at most chunk_size + 100
\* + 2 * chunk_overlap long.
CoreLengthBounds ==
    ProcessReturned =>
        LET n == Len(ProducedChunks)
        IN  \A i \in 1..n :
                LET c == ProducedChunks[i]
                IN  /\ content_length(c.position) <= proc.chunk_size + SearchWindow
                    /\ i < n => content_length(c.position) >= proc.chunk_size - StallSize
                    /\ Len(c.content) <= proc.chunk_size + SearchWindow + 2 * proc.chunk_overlap

\* C26 witness: a produced sequence with a core of chunk_size - 98 characters
\* and a core of chunk_size + 100 characters, neither the last.
CoreLengthBoundsWitness ==
    /\ ProcessReturned
    /\ \E i, j \in 1..(Len(ProducedChunks) - 1) :
          /\ content_length(ProducedChunks[i].position) = proc.chunk_size - StallSize
          /\ content_length(ProducedChunks[i].position) > 0
          /\ content_length(ProducedChunks[j].position) = proc.chunk_size + SearchWindow
          /\ Len(ProducedChunks[j].content) > proc.chunk_size + SearchWindow

-----------------------------------------------------------------------------
(* The thread session: MaxThreads threads call add_chunk on one Document
   without a lock.  The steps of add_chunk, lines 174-177, are the owner
   check, the append, the call of datetime.now() and the store into
   updated_at; the clock moves with every step *)

MaxThreads == 2

ThreadIds == 1..MaxThreads

\* a thread about to call doc.add_chunk(chunk)
Thread(chunk) == [pc |-> "check", chunk |-> chunk, t |-> 0, appended_at |-> 0]

InitThreads ==
    /\ QuietDocument
    /\ vin = NoInput
    /\ report = NoReport
    /\ pos = NoPos
    /\ fin = NoCall
    /\ fout = NoResult
    /\ metrics = NoMetrics
    /\ sums = NoSums
    /\ \E ids \in [ThreadIds -> DocIds] :
           threads = [i \in ThreadIds |-> Thread(caller_chunk(ids[i], i - 1, 1))]

\* if chunk.doc_id != self.doc_id: raise ValueError(...): lines 174-175
ThreadCheck(i) ==
    /\ threads[i].pc = "check"
    /\ threads' = [threads EXCEPT ![i].pc =
                       IF add_chunk_raises(doc, threads[i].chunk) THEN "raised" ELSE "append"]
    /\ now' = now + 1
    /\ UNCHANGED doc
    /\ UNCHANGED <<proc, pc, start, chunk_index, chunks, op, calls, adds, vin, report, pos, fin, fout, metrics, sums>>

\* self.chunks.append(chunk): line 176
ThreadAppend(i) ==
    /\ threads[i].pc = "append"
    /\ doc' = [doc EXCEPT !.chunks = list_append(@, threads[i].chunk)]
    /\ threads' = [threads EXCEPT ![i].pc = "read", ![i].appended_at = now + 1]
    /\ now' = now + 1
    /\ UNCHANGED <<proc, pc, start, chunk_index, chunks, op, calls, adds, vin, report, pos, fin, fout, metrics, sums>>

\* datetime.now() is evaluated: line 177, right-hand side
ThreadRead(i) ==
    /\ threads[i].pc = "read"
    /\ threads' = [threads EXCEPT ![i].pc = "store", ![i].t = now + 1]
    /\ now' = now + 1
    /\ UNCHANGED doc
    /\ UNCHANGED <<proc, pc, start, chunk_index, chunks, op, calls, adds, vin, report, pos, fin, fout, metrics, sums>>

\* self.updated_at = ... is stored: line 177, assignment
ThreadStore(i) ==
    /\ threads[i].pc = "store"
    /\ doc' = [doc EXCEPT !.updated_at = threads[i].t]
    /\ threads' = [threads EXCEPT ![i].pc = "done"]
    /\ now' = now + 1
    /\ UNCHANGED <<proc, pc, start, chunk_index, chunks, op, calls, adds, vin, report, pos, fin, fout, metrics, sums>>

NextThreads ==
    \/ \E i \in ThreadIds : ThreadCheck(i)
    \/ \E i \in ThreadIds : ThreadAppend(i)
    \/ \E i \in ThreadIds : ThreadRead(i)
    \/ \E i \in ThreadIds : ThreadStore(i)

SpecThreads == InitThreads /\ [][NextThreads]_vars

\* the threads whose append has happened
Appended == {i \in ThreadIds : threads[i].pc \in {"read", "store", "done"}}

\* every thread has left add_chunk
AllLeft == \A i \in ThreadIds : threads[i].pc \in {"done", "raised"}

\* C24: add_chunk is not atomic, yet loses no chunk.  With threads calling
\* add_chunk on one Document without synchronization, at every moment the
\* chunks of exactly the threads that have appended are in doc.chunks, once
\* each, and updated_at is the creation time or the clock reading of a
\* thread that has stored; the append and the updated_at bump being separate
\* steps, updated_at may hold a value taken before an append that is already
\* in the list, also when every call has returned.
AddChunkNotAtomic ==
    /\ Len(doc.chunks) = Cardinality(Appended)
    /\ \A i \in Appended :
          Cardinality({k \in 1..Len(doc.chunks) : doc.chunks[k] = threads[i].chunk}) = 1
    /\ \A k \in 1..Len(doc.chunks) : \E i \in Appended : doc.chunks[k] = threads[i].chunk
    /\ \/ doc.updated_at = doc.created_at
       \/ \E i \in ThreadIds : threads[i].pc = "done" /\ doc.updated_at = threads[i].t
    /\ \A i \in ThreadIds :
          threads[i].pc = "raised" => threads[i].chunk.doc_id # doc.doc_id

\* C24 witness: every call has returned, both chunks are in doc.chunks, and
\* updated_at is older than the moment of the last append.
AddChunkNotAtomicWitness ==
    /\ AllLeft
    /\ Len(doc.chunks) >= 2
    /\ \E i \in Appended : doc.updated_at < threads[i].appended_at
    /\ \E i \in Appended : doc.updated_at = threads[i].t

-----------------------------------------------------------------------------
(* The checksum session: calculate_md5_file of src/common/utils.py called on
   files, one after the other.  A hash object is the sequence of bytes fed
   to it so far, and its digest is Md5 of that sequence *)

\* f.read(4096)
BlockSize == 4096

\* how many files a session checksums
MaxFiles == 2

\* hashlib.md5(): a fresh hash object
Md5New == <<>>

\* h.update(block)
Md5Update(h, block) == h \o block

\* h.hexdigest()
Md5Hexdigest(h) == Md5(h)

\* iter(lambda: f.read(4096), b""): the blocks of the file, in order
RECURSIVE Blocks(_)
Blocks(bytes) ==
    IF bytes = <<>> THEN <<>>
    ELSE <<SubSeq(bytes, 1, Min(BlockSize, Len(bytes)))>>
             \o Blocks(SubSeq(bytes, Min(BlockSize, Len(bytes)) + 1, Len(bytes)))

\* calculate_md5_file(file_path), bytes being the content of the file: each
\* block updates a hash object made for that statement and dropped after it
\* (line 7), and the digest is taken from another fresh one (line 8)
calculate_md5_file(bytes) ==
    LET blocks  == Blocks(bytes)
        dropped == [k \in 1..Len(blocks) |-> Md5Update(Md5New, blocks[k])]
    IN  Md5Hexdigest(Md5New)

\* a file of n bytes 'a', the byte at offset x being 0 (NoMark: none is)
FileBytes(n, x) == [i \in 1..n |-> IF i - 1 = x THEN 0 ELSE 97]

\* empty, one byte, a full block, a block and a byte; the 0 byte in the first
\* block, at its end, or in the second block
Files ==
    {FileBytes(n, x) : n \in {0, 1, BlockSize, BlockSize + 1},
                       x \in {NoMark, 0, BlockSize - 1, BlockSize}}

InitSums ==
    /\ QuietDocument
    /\ vin = NoInput
    /\ report = NoReport
    /\ pos = NoPos
    /\ fin = NoCall
    /\ fout = NoResult
    /\ metrics = NoMetrics
    /\ threads = NoThreads
    /\ \E files \in [1..MaxFiles -> Files] : sums = [files |-> files, out |-> <<>>]

\* calculate_md5_file(path) on the next file: lines 4-8
CalculateMd5File ==
    /\ Len(sums.out) < Len(sums.files)
    /\ sums' = [sums EXCEPT !.out = Append(@, calculate_md5_file(sums.files[Len(sums.out) + 1]))]
    /\ UNCHANGED <<doc, proc, pc, start, chunk_index, chunks, op, now, calls, adds, vin, report, pos, fin, fout, metrics, threads>>

NextSums == CalculateMd5File

SpecSums == InitSums /\ [][NextSums]_vars

\* C30: calculate_md5_file returns the digest of a hash state into which
\* every block of the file was fed in order, so that files with different
\* contents get different checksums and the checksum of a non-empty file is
\* not that of the empty file.
ChecksumOfContents ==
    \A i \in 1..Len(sums.out) :
        /\ sums.out[i] = Md5Hexdigest(sums.files[i])
        /\ sums.files[i] # <<>> => sums.out[i] # Md5Hexdigest(Md5New)
        /\ \A j \in 1..Len(sums.out) :
              sums.files[i] # sums.files[j] => sums.out[i] # sums.out[j]

====
